---- MODULE Spec2Model ----
(***************************************************************************)
(* Model of the TUDM artifact ingestion pipeline (src/body.py and          *)
(* src/ps_-axo_pid_user_etime_args.py): the grok grammar cascade, the      *)
(* event builder, the per-host parser and the ingestion coordinator with   *)
(* its tracker ledger.                                                     *)
(*                                                                         *)
(* A text line is a sequence of tokens.  The delimiter "|" and the symlink *)
(* marker " -> " are tokens of their own; every other token is a maximal   *)
(* run of characters holding neither of them.  A grok NUMBER matches one   *)
(* numeric token, a grok DATA (the regex .*?) matches the shortest run of  *)
(* tokens that lets the rest of the pattern match.                         *)
(***************************************************************************)
EXTENDS Integers, Sequences, FiniteSets, TLC

\* ------------------------------------------------------------------ bounds

\* longest artifact file, in lines, the per-host parser is run on
MaxLines == 2

\* ------------------------------------------------------------------ values

\* Python's None
None == [k |-> "none"]
\* a Python str, held as its token sequence
StrVal(toks) == [k |-> "str", v |-> toks]
\* a Python int
IntVal(n) == [k |-> "int", v |-> n]
\* the str that strftime('%Y-%m-%dT%H:%M:%S') renders, held as its six numbers
IsoVal(t) == [k |-> "iso", t |-> t]

\* ------------------------------------------------------------------ tokens

\* tokens the grok BASE10NUM regex accepts whose int() value lies in the
\* range of datetime
IntOf ==
  [t \in {"0", "8", "1001", "1234", "1699990000", "1700000000"} |->
     CASE t = "0" -> 0
       [] t = "8" -> 8
       [] t = "1001" -> 1001
       [] t = "1234" -> 1234
       [] t = "1699990000" -> 1699990000
       [] t = "1700000000" -> 1700000000]

\* a token BASE10NUM accepts and int() converts, beyond year 9999
HugeIntTokens == {"999999999999"}

\* a token BASE10NUM accepts and int() rejects (ValueError)
FractionTokens == {"12.5"}

\* %{NUMBER}: (?:%{BASE10NUM})
NumberTokens == DOMAIN IntOf \cup HugeIntTokens \cup FractionTokens


\* whitespace str.strip() removes; a line read from a file ends in "\n"
SpaceTokens == {"\n", " "}

\* %{USER}: [a-zA-Z0-9._-]+, which the digits of a number are too
UserTokens == {"root", "www-data"} \cup NumberTokens

\* %{TIME}: hours, minutes and seconds; the mm:ss and dd-hh:mm:ss forms of
\* an elapsed time are not among them
TimeTokens == {"02:03:04"}

\* ------------------------------------------------------------------ grok

Num(name) == [t |-> "NUMBER", n |-> name]
Data(name) == [t |-> "DATA", n |-> name]
Lit(tok) == [t |-> "LIT", n |-> tok]
User(name) == [t |-> "USER", n |-> name]
Time(name) == [t |-> "TIME", n |-> name]
GreedyData(name) == [t |-> "GREEDYDATA", n |-> name]
\* \s+ : one run of whitespace
Spaces == [t |-> "SPACE", n |-> ""]

\* the fields every file-metadata grammar has after its path field
StatTail ==
  << Lit("|"), Num("block_count"), Lit("|"), Data("permissions"),
     Lit("|"), Num("uid"), Lit("|"), Num("gid"), Lit("|"), Num("size"),
     Lit("|"), Num("mtime"), Lit("|"), Num("ctime"), Lit("|"), Num("atime") >>

PathField == << Data("path") >>
SymlinkField == << Data("symlink_path"), Lit(" -> "), Data("symlink_target") >>
BtimeField == << Lit("|"), Num("btime") >>
InodeField == << Num("inode"), Lit("|") >>

GROK_PATTERNS ==
  << InodeField \o PathField \o StatTail \o BtimeField,
     InodeField \o SymlinkField \o StatTail \o BtimeField,
     InodeField \o PathField \o StatTail,
     InodeField \o SymlinkField \o StatTail >>

NoMatch == [ok |-> FALSE]
Matched(m) == [ok |-> TRUE, m |-> m]
Bind(r, name, toks) ==
  Matched([x \in DOMAIN r.m \cup {name} |-> IF x = name THEN toks ELSE r.m[x]])

\* the tokens a one-token pattern element accepts
TokensOf(e) ==
  CASE e.t = "NUMBER" -> NumberTokens
    [] e.t = "USER" -> UserTokens
    [] e.t = "TIME" -> TimeTokens
    [] e.t = "SPACE" -> SpaceTokens

RECURSIVE MatchAt(_, _, _, _)
RECURSIVE LazyData(_, _, _, _, _)
RECURSIVE Greedy(_, _, _, _, _)

\* the regex engine on pat[i..] against line[j..], anchored at both ends
\* (pygrok's fullmatch)
MatchAt(pat, i, line, j) ==
  IF i > Len(pat)
  THEN IF j > Len(line) THEN Matched(<< >>) ELSE NoMatch
  ELSE LET e == pat[i] IN
       CASE e.t = "LIT" ->
              IF j <= Len(line) /\ line[j] = e.n
              THEN MatchAt(pat, i + 1, line, j + 1)
              ELSE NoMatch
         [] e.t \in {"NUMBER", "USER", "TIME"} ->
              IF j <= Len(line) /\ line[j] \in TokensOf(e)
              THEN LET r == MatchAt(pat, i + 1, line, j + 1) IN
                   IF r.ok THEN Bind(r, e.n, << line[j] >>) ELSE NoMatch
              ELSE NoMatch
         [] e.t = "SPACE" ->
              IF j <= Len(line) /\ line[j] \in TokensOf(e)
              THEN MatchAt(pat, i + 1, line, j + 1)
              ELSE NoMatch
         [] e.t = "DATA" -> LazyData(pat, i, line, j, 0)
         [] e.t = "GREEDYDATA" -> Greedy(pat, i, line, j, Len(line) - j + 1)

\* .*? : the shortest run of k tokens, none a newline, that lets the rest match
LazyData(pat, i, line, j, k) ==
  IF j + k > Len(line) + 1
  THEN NoMatch
  ELSE LET r == MatchAt(pat, i + 1, line, j + k) IN
       IF r.ok
       THEN Bind(r, pat[i].n, SubSeq(line, j, j + k - 1))
       ELSE IF j + k <= Len(line) /\ line[j + k] # "\n"
            THEN LazyData(pat, i, line, j, k + 1)
            ELSE NoMatch

\* .* : the longest run of k tokens, none a newline, that lets the rest match
Greedy(pat, i, line, j, k) ==
  IF k < 0
  THEN NoMatch
  ELSE LET r == IF \E x \in j..(j + k - 1) : line[x] = "\n"
                THEN NoMatch
                ELSE MatchAt(pat, i + 1, line, j + k)
       IN IF r.ok
          THEN Bind(r, pat[i].n, SubSeq(line, j, j + k - 1))
          ELSE Greedy(pat, i, line, j, k - 1)

\* Grok.match(text)
GrokMatch(pat, text) == MatchAt(pat, 1, text, 1)

RECURSIVE LStrip(_)
LStrip(line) ==
  IF line # << >> /\ Head(line) \in SpaceTokens THEN LStrip(Tail(line)) ELSE line

RECURSIVE RStrip(_)
RStrip(line) ==
  IF line # << >> /\ line[Len(line)] \in SpaceTokens
  THEN RStrip(SubSeq(line, 1, Len(line) - 1))
  ELSE line

\* str.strip()
Strip(line) == RStrip(LStrip(line))

\* the grammars tried in order from the i-th on; the first that matches wins
RECURSIVE CascadeFrom(_, _, _)
CascadeFrom(patterns, i, line) ==
  IF i > Len(patterns)
  THEN [ok |-> FALSE]
  ELSE LET r == GrokMatch(patterns[i], Strip(line)) IN
       IF r.ok THEN [ok |-> TRUE, m |-> r.m, grammar |-> i]
       ELSE CascadeFrom(patterns, i + 1, line)

Cascade(line) == CascadeFrom(GROK_PATTERNS, 1, line)

\* ------------------------------------------------------------------ to_iso

\* the proleptic Gregorian date of day z0 counted from 1970-01-01
CivilFromDays(z0) ==
  LET z == z0 + 719468
      era == z \div 146097
      doe == z - era * 146097
      yoe == (doe - doe \div 1460 + doe \div 36524 - doe \div 146096) \div 365
      doy == doe - (365 * yoe + yoe \div 4 - yoe \div 100)
      mp == (5 * doy + 2) \div 153
      d == doy - (153 * mp + 2) \div 5 + 1
      m == IF mp < 10 THEN mp + 3 ELSE mp - 9
      y == yoe + era * 400 + (IF m <= 2 THEN 1 ELSE 0)
  IN << y, m, d >>

\* the hour rendered on the 12-hour clock, %I in place of %H
StrftimeTwelveHour(n) ==
  LET secs == n % 86400
  IN IsoVal(CivilFromDays(n \div 86400)
            \o << (secs \div 3600) % 12, (secs % 3600) \div 60, secs % 60 >>)

\* datetime.fromtimestamp(n, timezone.utc).strftime('%Y-%m-%dT%H:%M:%S')
Strftime(n) ==
  LET secs == n % 86400
  IN IsoVal(CivilFromDays(n \div 86400)
            \o << secs \div 3600, (secs % 3600) \div 60, secs % 60 >>)

\* to_iso(ts): int(ts) raises on None and on a fraction, fromtimestamp raises
\* beyond year 9999; the bare except turns each into None
to_iso(ts) ==
  IF ts.k = "str" /\ Len(ts.v) = 1 /\ ts.v[1] \in DOMAIN IntOf
  THEN Strftime(IntOf[ts.v[1]])
  ELSE None

\* ------------------------------------------------------------------ events

\* dict.get(key): the captured str, or None
Get(match, key) == IF key \in DOMAIN match THEN StrVal(match[key]) ELSE None

\* truth value of a str or None
Truthy(v) == v # None /\ v # StrVal(<< >>)

Raised == [raised |-> TRUE]
Returned(v) == [raised |-> FALSE, v |-> v]

\* int(s) of a str a NUMBER captured
PyInt(s) ==
  IF s.v[1] \in DOMAIN IntOf THEN Returned(IntVal(IntOf[s.v[1]]))
  ELSE IF s.v[1] \in HugeIntTokens THEN Returned([k |-> "int", big |-> s.v[1]])
  ELSE Raised

\* the filter left out: every key stays, None or not
DropNoneKeepsAll(d) == d

\* {k: v for k, v in d.items() if v is not None}
DropNone(d) == [key \in {x \in DOMAIN d : d[x] # None} |-> d[key]]

\* the base_event dict of one matched line; int(match["size"]) may raise
BuildEvent(match, hostname) ==
  LET isSymlink == "symlink_path" \in DOMAIN match /\ "symlink_target" \in DOMAIN match
      path == IF isSymlink THEN StrVal(match["symlink_target"]) ELSE Get(match, "path")
      symlink_path == IF isSymlink THEN StrVal(match["symlink_path"]) ELSE None
      btime == Get(match, "btime")
      size == PyInt(StrVal(match["size"]))
      additional ==
        [symlink |-> IF Truthy(symlink_path) THEN symlink_path ELSE None,
         block_count |-> StrVal(match["block_count"]),
         permissions |-> StrVal(match["permissions"]),
         uid |-> StrVal(match["uid"]),
         gid |-> StrVal(match["gid"]),
         metadata_change_time |-> to_iso(StrVal(match["ctime"]))]
  IN IF size.raised
     THEN Raised
     ELSE Returned(
       [principal |->
          [process |-> [command_line |-> StrVal(<< "stat" >>),
                        file |-> [stat_inode |-> StrVal(match["inode"])]],
           hostname |-> StrVal(<< hostname >>),
           file |-> [full_path |-> path,
                     size |-> size.v,
                     last_modification_time |-> to_iso(StrVal(match["mtime"])),
                     last_access_time |-> to_iso(StrVal(match["atime"])),
                     create_time |-> IF Truthy(btime) THEN to_iso(btime) ELSE None]],
        metadata |-> [event_type |-> StrVal(<< "FILE_READ" >>),
                      product_name |-> StrVal(<< "Linux" >>),
                      vendor_name |-> StrVal(<< "Juniper" >>),
                      log_type |-> StrVal(<< "Host" >>)],
        intermediary |-> [namespace |-> StrVal(<< "UnixArtifactCollector" >>)],
        additional |-> DropNone(additional)])

\* ------------------------------------------------------------------ process

\* the locals of StatLogParser.process before the first line
ProcessStart ==
  [results |-> << >>, total_lines |-> 0, success_count |-> 0, fail_count |-> 0,
   raised |-> FALSE]

\* the iteration without `if not matched: fail_count += 1`
LineStepUncounted(st, line, hostname) ==
  LET c == Cascade(line)
      counted == [st EXCEPT !.total_lines = @ + 1]
  IN IF c.ok
     THEN LET ev == BuildEvent(c.m, hostname) IN
          IF ev.raised
          THEN [counted EXCEPT !.raised = TRUE]
          ELSE [counted EXCEPT !.results = Append(@, ev.v),
                               !.success_count = @ + 1]
     ELSE counted

\* one iteration of the loop over the lines of the artifact file
LineStep(st, line, hostname) ==
  LET c == Cascade(line)
      counted == [st EXCEPT !.total_lines = @ + 1]
  IN IF c.ok
     THEN LET ev == BuildEvent(c.m, hostname) IN
          IF ev.raised
          THEN [counted EXCEPT !.raised = TRUE]
          ELSE [counted EXCEPT !.results = Append(@, ev.v),
                               !.success_count = @ + 1]
     ELSE [counted EXCEPT !.fail_count = @ + 1]

\* the whole loop; an exception leaves it at once
RECURSIVE ParseLines(_, _, _)
ParseLines(st, lines, hostname) ==
  IF lines = << >> \/ st.raised
  THEN st
  ELSE ParseLines(LineStep(st, Head(lines), hostname), Tail(lines), hostname)

\* the quotient cut off after two decimals instead of rounded
FormatRateTruncated(success_count, total_lines) ==
  IF total_lines = 0 THEN 0 ELSE (success_count * 10000) \div total_lines

\* f"{success_count/total_lines*100 if total_lines else 0:.2f}", in hundredths:
\* the float is rendered to the nearest hundredth, and to the even one when
\* it lies exactly halfway, which it does only when total_lines is a multiple
\* of 32 (below 160 lines the float product is exact there)
FormatRate(success_count, total_lines) ==
  IF total_lines = 0
  THEN 0
  ELSE LET q == (success_count * 10000) \div total_lines
           r == (success_count * 10000) % total_lines
       IN IF 2 * r > total_lines \/ (2 * r = total_lines /\ q % 2 = 1)
          THEN q + 1
          ELSE q

\* the record process() puts on the tracker queue
Outcome(hostname, uac_log_path, output_path, st) ==
  [hostname |-> hostname,
   uac_log_path |-> uac_log_path,
   output_file |-> output_path,
   total_lines |-> st.total_lines,
   success_count |-> st.success_count,
   fail_count |-> st.fail_count,
   success_rate |-> FormatRate(st.success_count, st.total_lines)]

\* ------------------------------------------------------------------ inputs

\* a line of bodyfile.txt with the given path field, size, mtime and the
\* optional trailing birth time
StatLine(inode, path, size, mtime, btime) ==
  << inode, "|" >> \o path
    \o << "|", "8", "|", "-rw-r--r--", "|", "0", "|", "0", "|", size, "|", mtime,
          "|", "1700000000", "|", "1700000000" >>
    \o btime \o << "\n" >>

PlainPath == << "/etc/passwd" >>
SymlinkPath == << "/bin/sh", " -> ", "/bin/dash" >>
WithBtime == << "|", "1699990000" >>

\* well-formed lines: plain or symlink path, integral or fractional size,
\* mtime inside or beyond the range of datetime, with or without birth time
StatLines ==
  { StatLine("1001", p, s, m, b) :
      p \in {PlainPath, SymlinkPath}, s \in {"1234", "12.5"},
      m \in {"1700000000", "999999999999"}, b \in {<< >>, WithBtime} }

\* lines no grammar matches: blank, free text, too few fields, a non-numeric
\* inode
BadLines ==
  { << "\n" >>,
    << "garbage", "\n" >>,
    << "1001", "|", "/etc/passwd", "|", "8", "\n" >>,
    StatLine("garbage", PlainPath, "1234", "1700000000", WithBtime) }

Lines == StatLines \cup BadLines

\* the artifact files of at most n lines
RECURSIVE FilesUpTo(_)
FilesUpTo(n) ==
  IF n = 0
  THEN { << >> }
  ELSE LET shorter == FilesUpTo(n - 1) IN
       shorter \cup { Append(f, l) : f \in { g \in shorter : Len(g) = n - 1 }, l \in Lines }

\* ------------------------------------------------------------------ state

VARIABLES
  catalog,        \* evidence_records.csv: the rows {hostname, uac_log_path}
  artifacts,      \* per catalog row, the bodyfile.txt files os.walk finds,
                  \* each named by its content
  outputs,        \* the files of the output directory: path -> content
  manifest,       \* the lines of Evidence/uploader.txt and of the file an
                  \* operator's pointer line names
  tracker,        \* body_file_tracker.csv: absent, or header and rows
  pc,             \* where main is: "idle" between runs, "pool" in pool.map
  runs,           \* runs of main started so far
  to_process,     \* the job list of the current run
  pool_size,      \* processes of the current run's Pool
  job_state,      \* per job: "pending", "running", "done" or "failed"
  tracker_queue,  \* the manager queue of the current run
  run_log,        \* per finished run: its jobs, their end and the ledger
  io_errors,      \* I/O errors raised so far
  parser          \* StatLogParser.process on one file, line by line

vars ==
  << catalog, artifacts, outputs, manifest, tracker, pc, runs, to_process,
     pool_size, job_state, tracker_queue, run_log, io_errors, parser >>

fs_vars == << catalog, artifacts, outputs, manifest, tracker >>
main_vars == << pc, runs, to_process, pool_size, job_state, run_log, io_errors >>

\* ------------------------------------------------------------------ files

\* output_dir / f"bodyfile_output_{hostname}.json" for count 1, and
\* output_dir / f"bodyfile_output_{hostname}({count}).json" from 2 on
OutputPath(hostname, count) == [hostname |-> hostname, count |-> count]

\* an output file a failed write left incomplete
Partial == [partial |-> TRUE, appended |-> << >>]
\* the JSON array process() writes; `appended` is what later opens in
\* append mode add behind it
Written(results) == [partial |-> FALSE, events |-> results, appended |-> << >>]

\* the directory after open(path, "w") and the writes
WriteFile(dir, path, content) ==
  [p \in DOMAIN dir \cup {path} |-> IF p = path THEN content ELSE dir[p]]

\* how process() ends: normally, or with an exception while opening or
\* reading the input, while writing the output, or while appending to the
\* manifest
IoOutcomes == {"ok", "read_error", "write_error", "append_error"}

\* Evidence/uploader.txt, and the file the first line of an uploader.txt
\* that an operator prepared names
UploaderTxt == [evidence |-> "uploader.txt"]
RedirectPath == [evidence |-> "uploads.txt"]

NoManifest == [uploader |-> << >>, redirected |-> << >>]
PointerManifest == [uploader |-> << RedirectPath >>, redirected |-> << >>]

\* target_path: uploader.txt, or Path(first_line) when uploader.txt exists
\* and its first line is not empty
ManifestTarget(man) ==
  IF man.uploader # << >> THEN Head(man.uploader) ELSE UploaderTxt

\* open(path, "a") and write of one line: the file is created when missing
AppendLine(dir, path, line) ==
  IF path \in DOMAIN dir
  THEN [dir EXCEPT ![path].appended = Append(@, line)]
  ELSE WriteFile(dir, path, [partial |-> FALSE, events |-> << >>, appended |-> << line >>])

\* the output directory after process(), by where it stopped: the output
\* file is rewritten, and the manifest line is appended to whatever file
\* target_path names, an output file included
OutputsAfter(dir, man, job, st, io) ==
  IF st.raised \/ io = "read_error" THEN dir
  ELSE IF io = "write_error" THEN WriteFile(dir, job.output_path, Partial)
  ELSE LET written == WriteFile(dir, job.output_path, Written(st.results))
           target == ManifestTarget(man)
       IN IF io = "ok" /\ target \notin {UploaderTxt, RedirectPath}
          THEN AppendLine(written, target, job.output_path)
          ELSE written

\* uploader.txt and the redirected file after process()
ManifestAfter(man, job, st, io) ==
  IF st.raised \/ io # "ok" THEN man
  ELSE LET target == ManifestTarget(man) IN
       IF target = UploaderTxt
       THEN [man EXCEPT !.uploader = Append(@, job.output_path)]
       ELSE IF target = RedirectPath
       THEN [man EXCEPT !.redirected = Append(@, job.output_path)]
       ELSE man

\* the put moved to where it runs after an exception too
QueueAfterAlways(queue, job, st, io) ==
  Append(queue, Outcome(job.hostname, job.uac_log_path, job.output_path, st))

\* the tracker queue after process(): one record on success, nothing when
\* the except clause caught an exception
QueueAfter(queue, job, st, io) ==
  IF ~st.raised /\ io = "ok"
  THEN Append(queue, Outcome(job.hostname, job.uac_log_path, job.output_path, st))
  ELSE queue

\* ------------------------------------------------------------------ ledger

\* the tracker file does not exist
Absent == [exists |-> FALSE]
TrackerFile(header, rows) == [exists |-> TRUE, header |-> header, rows |-> rows]

\* the "DONE" sentinel main puts on the queue
Done == [sentinel |-> "DONE"]

Range(s) == { s[i] : i \in DOMAIN s }

\* tracker_queue.put("DONE") left out
PutDoneSkipped(queue) == queue

\* tracker_queue.put("DONE")
PutDone(queue) == Append(queue, Done)

\* load_tracker: the keys of the ledger; a header without the key columns
\* makes row["hostname"] raise KeyError
load_tracker(file) ==
  IF ~file.exists THEN Returned({})
  ELSE IF file.rows # << >> /\ ~({"hostname", "uac_log_path"} \subseteq Range(file.header))
  THEN Raised
  ELSE Returned({ << r["hostname"], r["uac_log_path"] >> : r \in Range(file.rows) })

\* the loop with its bound off by one: while len(processed) < total - 1
RECURSIVE CollectShort(_, _, _)
CollectShort(queue, total, processed) ==
  IF Len(processed) >= total - 1
  THEN [blocked |-> FALSE, processed |-> processed, rest |-> queue]
  ELSE IF queue = << >>
  THEN [blocked |-> TRUE, processed |-> processed, rest |-> queue]
  ELSE IF Head(queue) = Done
  THEN [blocked |-> FALSE, processed |-> processed, rest |-> Tail(queue)]
  ELSE CollectShort(Tail(queue), total, Append(processed, Head(queue)))

\* the loop on a last-in-first-out queue: get() returns what was put last
RECURSIVE CollectLifo(_, _, _)
CollectLifo(queue, total, processed) ==
  IF Len(processed) >= total
  THEN [blocked |-> FALSE, processed |-> processed, rest |-> queue]
  ELSE IF queue = << >>
  THEN [blocked |-> TRUE, processed |-> processed, rest |-> queue]
  ELSE LET last == queue[Len(queue)]
           front == SubSeq(queue, 1, Len(queue) - 1)
       IN IF last = Done
          THEN [blocked |-> FALSE, processed |-> processed, rest |-> front]
          ELSE CollectLifo(front, total, Append(processed, last))

\* the loop of update_tracker: records are taken until `total` of them
\* arrived or the sentinel shows; on an empty queue get() blocks
RECURSIVE Collect(_, _, _)
Collect(queue, total, processed) ==
  IF Len(processed) >= total
  THEN [blocked |-> FALSE, processed |-> processed, rest |-> queue]
  ELSE IF queue = << >>
  THEN [blocked |-> TRUE, processed |-> processed, rest |-> queue]
  ELSE IF Head(queue) = Done
  THEN [blocked |-> FALSE, processed |-> processed, rest |-> Tail(queue)]
  ELSE Collect(Tail(queue), total, Append(processed, Head(queue)))

\* the fields csv writes as the text of a number
NumberFields == {"total_lines", "success_count", "fail_count"}

\* a queue record as DictWriter renders it: str() of every value
CsvRecord(rec) ==
  [f \in DOMAIN rec |-> IF f \in NumberFields THEN ToString(rec[f]) ELSE rec[f]]

\* fieldnames after the loop that appends the keys not yet in it
RECURSIVE AddKeys(_, _)
AddKeys(fieldnames, keys) ==
  IF keys \subseteq Range(fieldnames) THEN fieldnames
  ELSE LET k == CHOOSE x \in keys : TRUE IN
       AddKeys(IF k \in Range(fieldnames) THEN fieldnames ELSE Append(fieldnames, k),
               keys \ {k})

RECURSIVE Fieldnames(_, _)
Fieldnames(fieldnames, processed) ==
  IF processed = << >> THEN fieldnames
  ELSE Fieldnames(AddKeys(fieldnames, DOMAIN Head(processed)), Tail(processed))

BaseFieldnames ==
  << "hostname", "uac_log_path", "output_file",
     "total_lines", "success_count", "fail_count", "success_rate" >>

\* DictWriter.writerow for each row in turn: a row with a key that is not a
\* fieldname raises ValueError and leaves the file with the rows before it;
\* a missing key is written as the empty string
RECURSIVE WriteRows(_, _, _)
WriteRows(fieldnames, written, rows) ==
  IF rows = << >> THEN [raised |-> FALSE, rows |-> written]
  ELSE LET row == Head(rows) IN
       IF ~(DOMAIN row \subseteq Range(fieldnames))
       THEN [raised |-> TRUE, rows |-> written]
       ELSE WriteRows(fieldnames,
                      Append(written,
                             [f \in Range(fieldnames) |->
                                IF f \in DOMAIN row THEN row[f] ELSE ""]),
                      Tail(rows))

\* the rows update_tracker writes: the rows read back, then the new records
MergeRows(old, processed) ==
  old \o [i \in 1..Len(processed) |-> CsvRecord(processed[i])]

\* update_tracker(tracker_path, queue, total)
update_tracker(file, queue, total) ==
  LET got == Collect(queue, total, << >>)
      old == IF file.exists THEN file.rows ELSE << >>
      fieldnames == Fieldnames(BaseFieldnames, got.processed)
      out == WriteRows(fieldnames, << >>, MergeRows(old, got.processed))
  IN [blocked |-> got.blocked,
      queue |-> got.rest,
      raised |-> out.raised,
      file |-> TrackerFile(fieldnames, out.rows)]

\* ------------------------------------------------------------------ main

\* bounds of the coordinator: catalog rows and bodyfile.txt files of the
\* evidence tree (each at most MaxJobs), runs of main, and cpu_count()
MaxJobs == 2
MaxRuns == 2
MaxCpu == 2
\* I/O errors the environment raises in one behaviour
MaxIoErrors == 1

Hosts == {"h1", "h2"}

\* the artifact files the coordinator's jobs read: one with a good and an
\* unparsable line, and one whose size field is a fraction
GoodFile ==
  << StatLine("1001", PlainPath, "1234", "1700000000", WithBtime),
     << "garbage", "\n" >> >>
FractionFile == << StatLine("1001", PlainPath, "12.5", "1700000000", WithBtime) >>
FileNames == {"good", "fraction"}
FileContent == [name \in FileNames |-> IF name = "good" THEN GoodFile ELSE FractionFile]

\* the loop of process() over each of these files, for each hostname
Processed ==
  [name \in FileNames, h \in Hosts |-> ParseLines(ProcessStart, FileContent[name], h)]
Min(a, b) == IF a < b THEN a ELSE b

\* the while loop that looks for an output name no file has yet
RECURSIVE FreeOutputPath(_, _, _)
FreeOutputPath(dir, hostname, count) ==
  IF OutputPath(hostname, count) \in DOMAIN dir
  THEN FreeOutputPath(dir, hostname, count + 1)
  ELSE OutputPath(hostname, count)

\* the tuples the inner loops of main append for catalog row r, one per
\* bodyfile.txt that os.walk yields under the row's directory; the k-th
\* file under row r stands for its path
JobsOfRow(cat, arts, dir, r) ==
  [k \in 1..Len(arts[r]) |->
     [bodyfile_path |-> << r, k >>,
      hostname |-> cat[r].hostname,
      uac_log_path |-> cat[r].uac_log_path,
      output_path |-> FreeOutputPath(dir, cat[r].hostname, 1)]]

\* to_process after the loop over all_records, from row r on
RECURSIVE JobsFrom(_, _, _, _)
JobsFrom(cat, arts, dir, r) ==
  IF r > Len(cat) THEN << >>
  ELSE JobsOfRow(cat, arts, dir, r) \o JobsFrom(cat, arts, dir, r + 1)

BuildJobs(cat, arts, dir) == JobsFrom(cat, arts, dir, 1)

\* pool.map hands the tasks out in order: an idle pool process takes the
\* first task nobody took yet, so at most `size` tasks are running
RECURSIVE Dispatch(_, _)
Dispatch(states, size) ==
  LET running == { i \in DOMAIN states : states[i] = "running" }
      pending == { i \in DOMAIN states : states[i] = "pending" }
  IN IF pending = {} \/ Cardinality(running) >= size
     THEN states
     ELSE LET next == CHOOSE i \in pending : \A j \in pending : i <= j
          IN Dispatch([states EXCEPT ![next] = "running"], size)

\* main up to the Pool: read the catalog, load the ledger, build the job
\* list; return when there is nothing to process
MainStart ==
  /\ pc = "idle"
  /\ runs < MaxRuns
  /\ LET already_done == load_tracker(tracker)
         jobs == BuildJobs(catalog, artifacts, outputs)
         entry == [before |-> tracker, after |-> tracker, jobs |-> jobs,
                   ends |-> << >>, finished |-> FALSE,
                   raised |-> already_done.raised, killed |-> FALSE]
     IN /\ runs' = runs + 1
        /\ IF already_done.raised \/ jobs = << >>
           THEN /\ run_log' = Append(run_log, [entry EXCEPT !.finished = TRUE])
                /\ UNCHANGED << pc, to_process, pool_size, job_state, tracker_queue >>
           ELSE /\ run_log' = Append(run_log, entry)
                /\ pc' = "pool"
                /\ to_process' = jobs
                /\ tracker_queue' = << >>
                /\ \E cpu_count \in 1..MaxCpu :
                     /\ pool_size' = Min(cpu_count, Len(jobs))
                     /\ job_state' = Dispatch([i \in 1..Len(jobs) |-> "pending"],
                                              Min(cpu_count, Len(jobs)))
  /\ UNCHANGED << fs_vars, io_errors, parser >>

\* worker(args): StatLogParser(*args).process() from start to end; the pool
\* process then takes the next task
Worker(i) ==
  /\ pc = "pool"
  /\ job_state[i] = "running"
  /\ \E io \in IoOutcomes :
       LET job == to_process[i]
           st == Processed[artifacts[job.bodyfile_path[1]][job.bodyfile_path[2]],
                           job.hostname]
       IN /\ io # "ok" => io_errors < MaxIoErrors
          /\ io_errors' = IF io = "ok" THEN io_errors ELSE io_errors + 1
          /\ outputs' = OutputsAfter(outputs, manifest, job, st, io)
          /\ manifest' = ManifestAfter(manifest, job, st, io)
          /\ tracker_queue' = QueueAfter(tracker_queue, job, st, io)
          /\ job_state' =
               Dispatch([job_state EXCEPT
                           ![i] = IF ~st.raised /\ io = "ok" THEN "done" ELSE "failed"],
                        pool_size)
  /\ UNCHANGED << catalog, artifacts, tracker, pc, runs, to_process, pool_size,
                  run_log, parser >>

\* the merge without the barrier of pool.map: it runs once some job has
\* ended, whatever the others do
MainMergeEarly ==
  /\ pc = "pool"
  /\ \E i \in DOMAIN job_state : job_state[i] \in {"done", "failed"}
  /\ LET merged == update_tracker(tracker, PutDone(tracker_queue), Len(to_process))
     IN /\ ~merged.blocked
        /\ tracker' = merged.file
        /\ tracker_queue' = merged.queue
        /\ run_log' = [run_log EXCEPT ![Len(run_log)] =
                         [@ EXCEPT !.after = merged.file, !.ends = job_state,
                                   !.finished = TRUE, !.raised = merged.raised]]
  /\ pc' = "idle"
  /\ UNCHANGED << catalog, artifacts, outputs, manifest, runs, to_process, pool_size,
                  job_state, io_errors, parser >>

\* main after pool.map returned: put "DONE", then update_tracker
MainMerge ==
  /\ pc = "pool"
  /\ \A i \in DOMAIN job_state : job_state[i] \in {"done", "failed"}
  /\ LET merged == update_tracker(tracker, PutDone(tracker_queue), Len(to_process))
     IN /\ ~merged.blocked
        /\ tracker' = merged.file
        /\ tracker_queue' = merged.queue
        /\ run_log' = [run_log EXCEPT ![Len(run_log)] =
                         [@ EXCEPT !.after = merged.file, !.ends = job_state,
                                   !.finished = TRUE, !.raised = merged.raised]]
  /\ pc' = "idle"
  /\ UNCHANGED << catalog, artifacts, outputs, manifest, runs, to_process, pool_size,
                  job_state, io_errors, parser >>

\* main is killed inside update_tracker: open(tracker_path, "w") has emptied
\* the file, and the header and the first k rows may have reached it
MainMergeKilled ==
  /\ pc = "pool"
  /\ \A i \in DOMAIN job_state : job_state[i] \in {"done", "failed"}
  /\ io_errors < MaxIoErrors
  /\ LET merged == update_tracker(tracker, PutDone(tracker_queue), Len(to_process))
     IN /\ ~merged.blocked
        /\ tracker_queue' = merged.queue
        /\ \E k \in 0..Len(merged.file.rows) :
             \E header \in {<< >>, merged.file.header} :
               /\ k > 0 => header # << >>
               /\ tracker' = TrackerFile(header, SubSeq(merged.file.rows, 1, k))
               /\ run_log' = [run_log EXCEPT ![Len(run_log)] =
                                [@ EXCEPT !.after = tracker', !.ends = job_state,
                                          !.finished = TRUE, !.raised = TRUE,
                                          !.killed = TRUE]]
  /\ pc' = "idle"
  /\ io_errors' = io_errors + 1
  /\ UNCHANGED << catalog, artifacts, outputs, manifest, runs, to_process, pool_size,
                  job_state, parser >>

\* ------------------------------------------------------------------ process, line by line

\* the job the per-host parser is followed on
ParserJob(lines) ==
  [bodyfile_path |-> << 1, 1 >>,
   lines |-> lines,
   hostname |-> "h1",
   uac_log_path |-> "/evidence/a/uac.log",
   output_path |-> OutputPath("h1", 1)]

\* one iteration of `for line in infile`
ProcessLine ==
  /\ parser.pc = "loop"
  /\ parser.pos < Len(parser.job.lines)
  /\ LET st == LineStep(parser.st, parser.job.lines[parser.pos + 1], parser.job.hostname)
     IN parser' = [parser EXCEPT !.pos = @ + 1,
                                 !.st = st,
                                 !.pc = IF st.raised THEN "failed" ELSE "loop"]
  /\ UNCHANGED << fs_vars, main_vars, tracker_queue >>

\* after the loop: write the output file, append to the manifest, put the
\* record on the queue; an exception on the way ends process() in its
\* except clause
ProcessFinish ==
  /\ parser.pc = "loop"
  /\ parser.pos = Len(parser.job.lines)
  /\ \E io \in IoOutcomes \ {"read_error"} :
       /\ io_errors' = IF io = "ok" THEN io_errors ELSE io_errors + 1
       /\ outputs' = OutputsAfter(outputs, manifest, parser.job, parser.st, io)
       /\ manifest' = ManifestAfter(manifest, parser.job, parser.st, io)
       /\ tracker_queue' = QueueAfter(tracker_queue, parser.job, parser.st, io)
       /\ parser' = [parser EXCEPT !.pc = IF io = "ok" THEN "done" ELSE "failed"]
  /\ UNCHANGED << catalog, artifacts, tracker, pc, runs, to_process, pool_size,
                  job_state, run_log >>

\* opening or reading the input file raises
ProcessReadError ==
  /\ parser.pc = "loop"
  /\ parser' = [parser EXCEPT !.pc = "failed"]
  /\ io_errors' = io_errors + 1
  /\ UNCHANGED << fs_vars, pc, runs, to_process, pool_size, job_state, run_log,
                  tracker_queue >>

\* ------------------------------------------------------------------ specifications

\* a parser that is not running
NoParser == [pc |-> "off", job |-> ParserJob(<< >>), pos |-> 0, st |-> ProcessStart]

UacLogPaths == << "/evidence/a/uac.log", "/evidence/b/uac.log", "/evidence/c/uac.log" >>

\* sequences over S of length at most n
SeqsUpTo(S, n) == UNION { [1..k -> S] : k \in 0..n }

\* the bodyfile.txt files under the rows from r on
RECURSIVE FileCount(_, _)
FileCount(arts, r) ==
  IF r > Len(arts) THEN 0 ELSE Len(arts[r]) + FileCount(arts, r + 1)

MainIdle ==
  /\ pc = "idle"
  /\ runs = 0
  /\ to_process = << >>
  /\ pool_size = 0
  /\ job_state = << >>
  /\ tracker_queue = << >>
  /\ run_log = << >>
  /\ io_errors = 0

\* an evidence tree find_uac_logs and write_evidence_csv produced: one
\* catalog row per uac.log, some with the same hostname
EvidenceTree ==
  \E n \in 0..MaxJobs :
    /\ \E hs \in [1..n -> Hosts] :
         /\ n > 0 => hs[1] = "h1"
         /\ catalog = [r \in 1..n |-> [hostname |-> hs[r], uac_log_path |-> UacLogPaths[r]]]
    /\ artifacts \in [1..n -> SeqsUpTo(FileNames, MaxJobs)]
    /\ FileCount(artifacts, 1) <= MaxJobs

\* the coordinator on a fresh evidence tree: no ledger and no uploader.txt
\* yet
Init ==
  /\ EvidenceTree
  /\ outputs = << >>
  /\ manifest = NoManifest
  /\ tracker = Absent
  /\ MainIdle
  /\ parser = NoParser

Next ==
  \/ MainStart
  \/ \E i \in DOMAIN job_state : Worker(i)
  \/ MainMerge

Spec == Init /\ [][Next]_vars

\* the coordinator as the operating system runs it: a pool process that
\* holds a task runs process() to its end, and main, once pool.map has
\* returned, goes on to update_tracker
SpecFair ==
  /\ Spec
  /\ WF_vars(MainMerge)
  /\ \A i \in 1..MaxJobs : WF_vars(i \in DOMAIN job_state /\ Worker(i))

\* a ledger row an earlier version of the tool wrote, with the extension
\* column "note"
ExtendedRow ==
  [hostname |-> "h2", uac_log_path |-> UacLogPaths[3],
   output_file |-> OutputPath("h2", 1), total_lines |-> "2", success_count |-> "1",
   fail_count |-> "1", success_rate |-> 5000, note |-> "reviewed"]
ExtendedLedger == TrackerFile(Append(BaseFieldnames, "note"), << ExtendedRow >>)

\* a ledger whose header lost the key columns
HeaderlessLedger ==
  TrackerFile(<< "h2", UacLogPaths[3] >>,
              << [c \in {"h2", UacLogPaths[3]} |-> IF c = "h2" THEN "h1" ELSE UacLogPaths[1]] >>)

\* the ledger files main may find at startup
LedgerFiles == {Absent, ExtendedLedger, HeaderlessLedger}

\* the coordinator on an evidence tree with any of these ledgers, with or
\* without an uploader.txt that redirects the manifest, and with main killed
\* in update_tracker at most MaxIoErrors times
InitLedger ==
  /\ EvidenceTree
  /\ outputs = << >>
  /\ manifest \in {NoManifest, PointerManifest}
  /\ tracker \in LedgerFiles
  /\ MainIdle
  /\ parser = NoParser

NextLedger ==
  \/ MainStart
  \/ \E i \in DOMAIN job_state : Worker(i)
  \/ MainMerge
  \/ MainMergeKilled

SpecLedger == InitLedger /\ [][NextLedger]_vars

\* StatLogParser.process on every artifact file of at most MaxLines lines
InitParse ==
  /\ catalog = << >>
  /\ artifacts = << >>
  /\ outputs = << >>
  /\ manifest = NoManifest
  /\ tracker = Absent
  /\ MainIdle
  /\ \E f \in FilesUpTo(MaxLines) :
       parser = [pc |-> "loop", job |-> ParserJob(f), pos |-> 0, st |-> ProcessStart]

NextParse ==
  \/ ProcessLine
  \/ ProcessFinish
  \/ ProcessReadError

SpecParse == InitParse /\ [][NextParse]_vars

\* longest artifact file the success rate is computed for
MaxRateLines == 32

\* an artifact file of `total` lines of which the first `good` match
RateFile(good, total) ==
  [i \in 1..total |->
     IF i <= good
     THEN StatLine("1001", PlainPath, "1234", "1700000000", WithBtime)
     ELSE << "garbage", "\n" >>]

\* StatLogParser.process on a file for every pair of counts up to MaxRateLines
InitRate ==
  /\ catalog = << >>
  /\ artifacts = << >>
  /\ outputs = << >>
  /\ manifest = NoManifest
  /\ tracker = Absent
  /\ MainIdle
  /\ \E total \in 0..MaxRateLines :
       \E good \in 0..total :
         parser = [pc |-> "loop", job |-> ParserJob(RateFile(good, total)), pos |-> 0,
                   st |-> ProcessStart]

SpecRate == InitRate /\ [][NextParse]_vars

\* ------------------------------------------------------------------ the process-listing parser

\* the one grammar of ps_-axo_pid_user_etime_args.txt
PS_AXO_GROK_PATTERNS ==
  << << Num("pid"), Spaces, Num("ppid"), Spaces, User("user"), Spaces,
        Time("elapsed"), Spaces, GreedyData("command_line") >> >>

\* the instants datetime.utcnow() may return
Clock == { Strftime(IntOf["1699990000"]), Strftime(IntOf["1700000000"]) }

\* the base_event dict of one matched line; pygrok has converted pid and
\* ppid with int(), which raises on a fraction
PsBuildEvent(match, hostname, now) ==
  LET pid == PyInt(StrVal(match["pid"]))
      ppid == PyInt(StrVal(match["ppid"]))
  IN IF pid.raised \/ ppid.raised
     THEN Raised
     ELSE Returned(
       [principal |->
          [process |-> [pid |-> pid.v,
                        parent_pid |-> ppid.v,
                        command_line |-> StrVal(match["command_line"])],
           user |-> [user_id |-> StrVal(match["user"])],
           hostname |-> StrVal(<< hostname >>)],
        metadata |-> [event_type |-> StrVal(<< "PROCESS_ENUMERATION" >>),
                      product_name |-> StrVal(<< "Linux" >>),
                      collected_timestamp |-> now],
        intermediary |-> [namespace |-> StrVal(<< "UnixArtifactCollector" >>)]])

\* one iteration of the loop of PsAxoLogParser.process
PsLineStep(st, line, hostname, now) ==
  LET c == CascadeFrom(PS_AXO_GROK_PATTERNS, 1, line)
      counted == [st EXCEPT !.total_lines = @ + 1]
  IN IF c.ok
     THEN LET ev == PsBuildEvent(c.m, hostname, now) IN
          IF ev.raised
          THEN [counted EXCEPT !.raised = TRUE]
          ELSE [counted EXCEPT !.results = Append(@, ev.v),
                               !.success_count = @ + 1]
     ELSE [counted EXCEPT !.fail_count = @ + 1]

\* a line of the listing: pid, ppid, user, elapsed time and command
PsLine(pid, ppid, user, elapsed, command) ==
  << pid, " ", ppid, " ", user, " ", elapsed, " " >> \o command \o << "\n" >>

\* lines of the five fields, with a named or a numeric user, a pid int()
\* rejects, an elapsed time of minutes and seconds only
PsLines ==
  { PsLine("1001", "0", "root", "02:03:04", << "/sbin/init", " ", "splash" >>),
    PsLine("1234", "1001", "0", "02:03:04", << "sshd" >>),
    << " " >> \o PsLine("8", "0", "www-data", "02:03:04", << "nginx" >>),
    PsLine("12.5", "0", "root", "02:03:04", << "bash" >>),
    PsLine("1001", "0", "root", "05:23", << "bash" >>) }

\* lines the grammar does not match: the header, a line of the four columns
\* pid, user, etime and args, a line without command, a blank line
PsBadLines ==
  { << "PID", " ", "PPID", " ", "USER", " ", "ELAPSED", " ", "COMMAND", "\n" >>,
    << "1001", " ", "root", " ", "02:03:04", " ", "/sbin/init", "\n" >>,
    << "1001", " ", "0", " ", "root", " ", "02:03:04", "\n" >>,
    << "\n" >> }

\* one iteration of `for line in infile` of PsAxoLogParser.process
PsProcessLine ==
  /\ parser.pc = "loop"
  /\ parser.pos < Len(parser.job.lines)
  /\ \E now \in Clock :
       LET st == PsLineStep(parser.st, parser.job.lines[parser.pos + 1],
                            parser.job.hostname, now)
       IN parser' = [parser EXCEPT !.pos = @ + 1,
                                   !.st = st,
                                   !.pc = IF st.raised THEN "failed" ELSE "loop"]
  /\ UNCHANGED << fs_vars, main_vars, tracker_queue >>

\* PsAxoLogParser.process on every listing of at most MaxLines lines
InitPs ==
  /\ catalog = << >>
  /\ artifacts = << >>
  /\ outputs = << >>
  /\ manifest = NoManifest
  /\ tracker = Absent
  /\ MainIdle
  /\ \E f \in SeqsUpTo(PsLines \cup PsBadLines, MaxLines) :
       parser = [pc |-> "loop", job |-> ParserJob(f), pos |-> 0, st |-> ProcessStart]

\* after its loop PsAxoLogParser.process is, statement by statement, the
\* process of StatLogParser
NextPs ==
  \/ PsProcessLine
  \/ ProcessFinish
  \/ ProcessReadError

SpecPs == InitPs /\ [][NextPs]_vars

\* ------------------------------------------------------------------ properties of the coordinator

LedgerRows(file) == IF file.exists THEN file.rows ELSE << >>
RowKey(row) == << row["hostname"], row["uac_log_path"] >>
LedgerKeys(file) == { RowKey(r) : r \in Range(LedgerRows(file)) }
JobKey(job) == << job.hostname, job.uac_log_path >>
RowsWithKey(file, key) ==
  LET rows == LedgerRows(file) IN
  [ i \in { j \in DOMAIN rows : RowKey(rows[j]) = key } |-> rows[i] ]

\* the runs that went through the pool and the merge
MergedRuns == { n \in DOMAIN run_log : run_log[n].finished /\ run_log[n].jobs # << >> }
DoneJobs(e) == { i \in DOMAIN e.ends : e.ends[i] = "done" }
FailedJobs(e) == { i \in DOMAIN e.ends : e.ends[i] = "failed" }

\* C1 (resumability): a run started with a ledger that holds the key
\* (hostA, pathA) puts no job for that key on its job list, and the ledger
\* rows of that key are the same after the run as before it.
C1_Resumability ==
  \A n \in DOMAIN run_log :
    LET e == run_log[n] IN
    /\ \A j \in DOMAIN e.jobs : JobKey(e.jobs[j]) \notin LedgerKeys(e.before)
    /\ e.finished =>
         \A key \in LedgerKeys(e.before) :
           RowsWithKey(e.after, key) = RowsWithKey(e.before, key)

\* C2 (idempotence): when a run in which no job failed follows a run over
\* the same catalog and artifacts in which no job failed, the ledger after
\* the second run equals the ledger after the first.
C2_Idempotence ==
  \A n \in MergedRuns :
    (/\ n + 1 \in DOMAIN run_log
     /\ run_log[n + 1].finished
     /\ FailedJobs(run_log[n]) = {}
     /\ FailedJobs(run_log[n + 1]) = {})
    => run_log[n + 1].after = run_log[n].after

\* C3 (ledger key uniqueness): the persisted ledger never holds two rows
\* with the same (hostname, uac_log_path) key.
C3_KeyUniqueness ==
  \A i, j \in DOMAIN LedgerRows(tracker) :
    RowKey(LedgerRows(tracker)[i]) = RowKey(LedgerRows(tracker)[j]) => i = j

\* C4: a run that starts from an empty ledger and whose N jobs all complete
\* ends with exactly N ledger rows, whatever the pool size and the order in
\* which the workers put their records on the queue.
C4_RowPerJob ==
  \A n \in MergedRuns :
    LET e == run_log[n] IN
    (LedgerRows(e.before) = << >> /\ FailedJobs(e) = {})
    => e.after.exists /\ Len(e.after.rows) = Len(e.jobs)

\* C4 happens: two jobs of different hosts ran side by side, the second
\* finished first, and the ledger has their two rows in that order
C4_Witness ==
  \E n \in MergedRuns :
    LET e == run_log[n] IN
    /\ LedgerRows(e.before) = << >>
    /\ FailedJobs(e) = {}
    /\ Len(e.jobs) = 2
    /\ pool_size = 2
    /\ Len(e.after.rows) = 2
    /\ e.after.rows[1]["hostname"] = e.jobs[2].hostname
    /\ e.after.rows[1]["hostname"] # e.after.rows[2]["hostname"]

\* the record a completed job puts on the queue, as the ledger holds it
RowOfJob(job, name) == CsvRecord(Outcome(job.hostname, job.uac_log_path, job.output_path,
                                        Processed[name, job.hostname]))
JobFile(job) == artifacts[job.bodyfile_path[1]][job.bodyfile_path[2]]
NewRows(e) == SubSeq(LedgerRows(e.after), Len(LedgerRows(e.before)) + 1,
                     Len(LedgerRows(e.after)))

\* C5 (job failure isolation): a failed job puts nothing on the queue and
\* adds no ledger row; every other job of the run completes and has its
\* record merged into the ledger; and the run goes on to its merge.
C5_FailureIsolation ==
  /\ pc = "pool" =>
       /\ Len(tracker_queue) = Cardinality({ i \in DOMAIN job_state : job_state[i] = "done" })
       /\ (\A i \in DOMAIN job_state : job_state[i] \in {"done", "failed"})
            => LET merged == update_tracker(tracker, PutDone(tracker_queue),
                                            Len(to_process))
               IN ~merged.blocked /\ ~merged.raised
  /\ \A n \in MergedRuns :
       LET e == run_log[n] IN
       /\ Len(NewRows(e)) = Cardinality(DoneJobs(e))
       /\ \A i \in DoneJobs(e) : RowOfJob(e.jobs[i], JobFile(e.jobs[i])) \in Range(NewRows(e))
       /\ SubSeq(LedgerRows(e.after), 1, Len(LedgerRows(e.before))) = LedgerRows(e.before)

\* C5 happens: a run of two jobs, the first failed and the second completed,
\* was merged and the ledger gained the one row of the second job
C5_Witness ==
  \E n \in MergedRuns :
    LET e == run_log[n] IN
    /\ Len(e.jobs) = 2
    /\ e.ends[1] = "failed"
    /\ e.ends[2] = "done"
    /\ NewRows(e) = << RowOfJob(e.jobs[2], JobFile(e.jobs[2])) >>

\* ------------------------------------------------------------------ properties of the per-host parser

\* the line the loop of process() handled last, the event it appended, and
\* whether it was matched and built into an event
LastLine == parser.job.lines[parser.pos]
LastEvent == parser.st.results[Len(parser.st.results)]
LineBuilt == parser.pc \in {"loop", "done"} /\ parser.pos > 0 /\ Cascade(LastLine).ok

\* the path field has the form "A -> B"
SymlinkForm(line) == " -> " \in Range(line)
ArrowAt(line) == CHOOSE i \in DOMAIN line : line[i] = " -> "
LinkSource(line) == << line[ArrowAt(line) - 1] >>
LinkTarget(line) == << line[ArrowAt(line) + 1] >>

\* the matched lines of the file whose size int() converts
Convertible(lines) ==
  { i \in DOMAIN lines :
      Cascade(lines[i]).ok /\ ~PyInt(StrVal(Cascade(lines[i]).m["size"])).raised }
\* C6 (field-level failure containment): a size field that int() cannot
\* convert invalidates only its own line: unless an I/O error strikes,
\* process() does not fail, and when it is done the output file holds one
\* event per matched line with a convertible size and the outcome is on the
\* queue.
C6_SizeFailureContained ==
  /\ parser.pc = "failed" => io_errors > 0
  /\ parser.pc = "done" =>
       /\ parser.job.output_path \in DOMAIN outputs
       /\ outputs[parser.job.output_path] = Written(parser.st.results)
       /\ Len(parser.st.results) = Cardinality(Convertible(parser.job.lines))
       /\ Len(tracker_queue) = 1

\* C7 (symlink normalisation): the event built from a matched line whose
\* path field is "A -> B" has full_path B and additional.symlink A.
C7_SymlinkNormalised ==
  (LineBuilt /\ SymlinkForm(LastLine)) =>
    /\ LastEvent.principal.file.full_path = StrVal(LinkTarget(LastLine))
    /\ "symlink" \in DOMAIN LastEvent.additional
    /\ LastEvent.additional["symlink"] = StrVal(LinkSource(LastLine))

\* C8 (no symlink attribute on plain paths): the event built from a matched
\* line without " -> " in its path field has no symlink key at all.
C8_NoSymlinkAttribute ==
  (LineBuilt /\ ~SymlinkForm(LastLine)) => "symlink" \notin DOMAIN LastEvent.additional

\* C8 happens: a line with a plain path was matched and its event appended
C8_Witness ==
  /\ LineBuilt
  /\ ~SymlinkForm(LastLine)
  /\ LastEvent.principal.file.full_path = StrVal(PlainPath)
  /\ parser.st.success_count = Len(parser.st.results)

\* no attribute of the event is None
NoNullAttribute(ev) ==
  /\ \A f \in DOMAIN ev.principal.file : ev.principal.file[f] # None
  /\ \A f \in DOMAIN ev.additional : ev.additional[f] # None
  /\ ev.principal.process.file.stat_inode # None
  /\ ev.principal.hostname # None

\* C9 (no null attributes): no event process() buffers holds an attribute
\* that is None; an absent birth time or a timestamp to_iso cannot render
\* is left out of the event.
C9_NoNullAttributes ==
  \A i \in DOMAIN parser.st.results : NoNullAttribute(parser.st.results[i])

\* C10 (output-path uniqueness): any two distinct jobs of one run's job
\* list have different output paths.
C10_OutputPathsDistinct ==
  \A i, j \in DOMAIN to_process :
    to_process[i].output_path = to_process[j].output_path => i = j

\* ------------------------------------------------------------------ properties of the output files and the manifest

\* the jobs of run n that completed: by the run's record once it is merged,
\* by job_state while the run is in the pool
CompletedJobs(n) ==
  IF run_log[n].finished THEN DoneJobs(run_log[n])
  ELSE { i \in DOMAIN job_state : job_state[i] = "done" }
\* the completed jobs of all runs, each as << run, index >>
AllCompleted == UNION { { << n, i >> : i \in CompletedJobs(n) } : n \in DOMAIN run_log }
OutputOf(rj) == run_log[rj[1]].jobs[rj[2]].output_path

\* C11 (exclusive output writer): an output file holds what the one job
\* owning it wrote: nothing was appended behind its JSON array, by the
\* manifest step of any job, and no two completed jobs wrote the same file.
C11_ExclusiveWriter ==
  \A p \in DOMAIN outputs :
    /\ outputs[p].appended = << >>
    /\ \A a, b \in AllCompleted : (OutputOf(a) = p /\ OutputOf(b) = p) => a = b

\* the manifest file: the file the operator's pointer names when
\* uploader.txt starts with that pointer, uploader.txt itself otherwise
ManifestLines ==
  IF manifest.uploader # << >> /\ Head(manifest.uploader) = RedirectPath
  THEN manifest.redirected
  ELSE manifest.uploader

\* C12 (upload manifest): the manifest file holds one line per completed
\* job, its output path: every path is there as often as jobs completed
\* with it, and no other line is.
C12_ManifestPerJob ==
  /\ Len(ManifestLines) = Cardinality(AllCompleted)
  /\ \A rj \in AllCompleted :
       Cardinality({ i \in DOMAIN ManifestLines : ManifestLines[i] = OutputOf(rj) })
         = Cardinality({ x \in AllCompleted : OutputOf(x) = OutputOf(rj) })

\* ------------------------------------------------------------------ properties of the ledger file

\* C13 (atomic ledger write): the ledger a run leaves, also a run killed
\* inside update_tracker, is the complete old ledger or the complete new
\* one, with a header and a row for every old row and every completed job;
\* never an empty, header-only or partly written file.
C13_AtomicLedgerWrite ==
  \A n \in MergedRuns :
    LET e == run_log[n] IN
    \/ e.after = e.before
    \/ /\ e.after.exists
       /\ e.after.header # << >>
       /\ Len(e.after.rows) = Len(LedgerRows(e.before)) + Cardinality(DoneJobs(e))

\* the ledger exists and load_tracker cannot read the key columns of its rows
CorruptLedger(file) ==
  file.exists /\ ~({"hostname", "uac_log_path"} \subseteq Range(file.header))

\* C14 (ledger load failure): a run that finds a corrupt ledger is not
\* aborted: it ends only after its jobs went through the pool.
C14_LoadFailureTolerated ==
  \A n \in DOMAIN run_log :
    LET e == run_log[n] IN
    (CorruptLedger(e.before) /\ e.jobs # << >> /\ e.finished)
      => Len(e.ends) = Len(e.jobs)

\* the columns of a ledger file
Columns(file) == IF file.exists THEN Range(file.header) ELSE {}

\* C15 (append-only schema): after a merge that was not killed the header
\* holds every column the ledger had before and every field of the merged
\* outcomes, and every old row is still there with its old values.
C15_AppendOnlySchema ==
  \A n \in MergedRuns :
    LET e == run_log[n] IN
    ~e.killed =>
      /\ Columns(e.before) \cup (IF DoneJobs(e) = {} THEN {} ELSE Range(BaseFieldnames))
           \subseteq Columns(e.after)
      /\ \A i \in DOMAIN LedgerRows(e.before) :
           /\ i \in DOMAIN LedgerRows(e.after)
           /\ \A c \in Columns(e.before) :
                LedgerRows(e.after)[i][c] = LedgerRows(e.before)[i][c]

\* row `a` of the old ledger is kept in `b`: the same value in every column
\* `a` has
SameRow(a, b) == DOMAIN a \subseteq DOMAIN b /\ \A c \in DOMAIN a : b[c] = a[c]

\* the rows of `old` appear in `new` in their order, each with its values
RECURSIVE IsSubsequence(_, _)
IsSubsequence(old, new) ==
  IF old = << >> THEN TRUE
  ELSE IF new = << >> THEN FALSE
  ELSE IF SameRow(Head(old), Head(new)) THEN IsSubsequence(Tail(old), Tail(new))
  ELSE IsSubsequence(old, Tail(new))

\* the old rows of run e whose key no merged outcome has
Unaffected(e) ==
  LET merged == { JobKey(e.jobs[i]) : i \in DoneJobs(e) }
      kept(row) == RowKey(row) \notin merged
  IN SelectSeq(LedgerRows(e.before), kept)

\* C16 (row order): after a merge that was not killed, the old rows whose
\* keys are not among the merged outcomes are in the ledger in their old
\* order and with their old values.
C16_RowOrderPreserved ==
  \A n \in MergedRuns :
    LET e == run_log[n] IN
    (~e.killed /\ ~CorruptLedger(e.before))
      => IsSubsequence(Unaffected(e), LedgerRows(e.after))

\* ------------------------------------------------------------------ properties of the job list

\* C17 (one job per catalog row): no run has two jobs for the same catalog
\* row, however many bodyfile.txt files lie under the row's directory.
C17_OneJobPerRow ==
  \A n \in DOMAIN run_log :
    LET jobs == run_log[n].jobs IN
    \A i, j \in DOMAIN jobs :
      jobs[i].bodyfile_path[1] = jobs[j].bodyfile_path[1] => i = j

\* ------------------------------------------------------------------ properties of the outcome record

\* the record process() put on the queue
LastOutcome == tracker_queue[Len(tracker_queue)]
Abs(n) == IF n < 0 THEN -n ELSE n

\* C18 (success rate): the outcome process() emits has 0 <= success_count
\* <= total_lines, the rate 0.00 when total_lines is 0, and otherwise, in
\* hundredths, an integer nearest to success_count * 10000 / total_lines.
C18_SuccessRate ==
  parser.pc = "done" =>
    LET good == LastOutcome.success_count
        total == LastOutcome.total_lines
        rate == LastOutcome.success_rate
    IN /\ 0 <= good /\ good <= total
       /\ total = Len(parser.job.lines)
       /\ total = 0 => rate = 0
       /\ total > 0 => 2 * Abs(rate * total - good * 10000) <= total

\* C18 happens on a tie: 1 line of 32 matched, 3.125 is rendered as 3.12
C18_Witness ==
  /\ parser.pc = "done"
  /\ LastOutcome.total_lines = 32
  /\ LastOutcome.success_count = 1
  /\ LastOutcome.success_rate = 312

\* ------------------------------------------------------------------ properties of the example line

\* 1001|/etc/passwd|8|-rw-r--r--|0|0|1234|1700000000|1700000000|1700000000|1699990000
ExampleLine == StatLine("1001", PlainPath, "1234", "1700000000", WithBtime)

\* the loop of process() has just built the event of the example line
ExampleBuilt == LineBuilt /\ LastLine = ExampleLine

\* what the example says of the event apart from the rendering of its
\* creation time: matched by the first grammar, full_path /etc/passwd, size
\* the integer 1234, creation time to_iso of the birth time, no symlink
ExampleEvent(ev) ==
  /\ Cascade(ExampleLine).grammar = 1
  /\ ev.principal.file.full_path = StrVal(<< "/etc/passwd" >>)
  /\ ev.principal.file.size = IntVal(1234)
  /\ ev.principal.file.create_time = to_iso(StrVal(<< "1699990000" >>))
  /\ "symlink" \notin DOMAIN ev.additional

\* C19 as the example states it: the creation time of the event reads
\* 2023-11-14T00:06:40.
C19_ExampleAsStated ==
  ExampleBuilt =>
    /\ ExampleEvent(LastEvent)
    /\ LastEvent.principal.file.create_time = IsoVal(<< 2023, 11, 14, 0, 6, 40 >>)

\* C19 (example line): the example line is matched by the first grammar and
\* gives an event with full_path /etc/passwd, the integer size 1234, no
\* symlink attribute and the creation time to_iso(1699990000), which reads
\* 2023-11-14T19:26:40.
C19_ExampleLine ==
  ExampleBuilt =>
    /\ ExampleEvent(LastEvent)
    /\ LastEvent.principal.file.create_time = IsoVal(<< 2023, 11, 14, 19, 26, 40 >>)

\* C19 happens: the example line was the second line of a file, and its
\* event, with a creation time on 2023-11-14, is the last one buffered
C19_Witness ==
  /\ ExampleBuilt
  /\ parser.pos = 2
  /\ LastEvent.principal.file.create_time.t[3] = 14
  /\ LastEvent.principal.file.size = IntVal(1234)

\* ------------------------------------------------------------------ properties of the process-listing parser

\* the line PsAxoLogParser.process handled last was matched and built into
\* the last event of the buffer
PsLineBuilt ==
  /\ parser.pc \in {"loop", "done"}
  /\ parser.pos > 0
  /\ CascadeFrom(PS_AXO_GROK_PATTERNS, 1, LastLine).ok

\* the five fields of a matched line, read off its tokens
PsFields(line) ==
  LET toks == Strip(line) IN
  [pid |-> toks[1], ppid |-> toks[3], user |-> toks[5], elapsed |-> toks[7],
   command |-> SubSeq(toks, 9, Len(toks))]

\* C20 (process event fields): the event built from a matched line has the
\* pid, the parent pid, the user and the command line of the line, and an
\* attribute of the process that holds its elapsed time.
C20_PsEventFields ==
  PsLineBuilt =>
    LET f == PsFields(LastLine)
        process == LastEvent.principal.process
    IN /\ process.pid = IntVal(IntOf[f.pid])
       /\ process.parent_pid = IntVal(IntOf[f.ppid])
       /\ LastEvent.principal.user.user_id = StrVal(<< f.user >>)
       /\ process.command_line = StrVal(f.command)
       /\ \E a \in DOMAIN process : process[a] = StrVal(<< f.elapsed >>)

\* ------------------------------------------------------------------ properties of the line counters

\* the lines among the first n of the file that some grammar matches
MatchedUpTo(n) == { i \in 1..n : Cascade(parser.job.lines[i]).ok }

AllEnded == \A i \in DOMAIN job_state : job_state[i] \in {"done", "failed"}
\* the record of the run started last
LastRun == run_log[Len(run_log)]

\* C22 (join barrier and single merge): while a run is in its pool the
\* ledger is still the one the run found, and every step that changes the
\* ledger is the one step of the coordinator that ends the run, taken when
\* every job of the run has ended; no step of a worker changes it.
C22_JoinBarrier ==
  /\ [](pc = "pool" => tracker = LastRun.before)
  /\ [][tracker' # tracker =>
          /\ pc = "pool"
          /\ AllEnded
          /\ pc' = "idle"
          /\ runs' = runs
          /\ ~LastRun.finished
          /\ run_log'[Len(run_log)].finished]_vars

\* C22 happens: a run of two jobs on a pool of two was merged, after both
\* had ended, and the ledger is the one that merge wrote
C22_Witness ==
  /\ pc = "idle"
  /\ run_log # << >>
  /\ LastRun.finished
  /\ Len(LastRun.jobs) = 2
  /\ pool_size = 2
  /\ LastRun.after # LastRun.before
  /\ tracker = LastRun.after

\* the outcome a completed job of the current run puts on the queue
OutcomeOfJob(job) ==
  Outcome(job.hostname, job.uac_log_path, job.output_path,
          Processed[JobFile(job), job.hostname])

\* C23 (no outcome lost to the sentinel): while the pool runs the queue
\* holds the outcomes of the completed jobs and no sentinel; once every job
\* has ended, the loop of update_tracker takes every outcome on the queue
\* before it stops, whether it stops on the count or on the sentinel; and
\* the ledger a run wrote has the row of each job that completed in it.
C23_NoOutcomeLost ==
  /\ pc = "pool" =>
       /\ Done \notin Range(tracker_queue)
       /\ \A i \in DOMAIN job_state :
            job_state[i] = "done" => OutcomeOfJob(to_process[i]) \in Range(tracker_queue)
       /\ AllEnded =>
            Collect(PutDone(tracker_queue), Len(to_process), << >>).processed
              = tracker_queue
  /\ \A n \in MergedRuns :
       \A i \in DoneJobs(run_log[n]) :
         RowOfJob(run_log[n].jobs[i], JobFile(run_log[n].jobs[i]))
           \in Range(LedgerRows(run_log[n].after))

\* C23 happens: of two jobs on a pool of two the first completed and the
\* second failed, the loop stopped on the sentinel, and the ledger has the
\* row of the first
C23_Witness ==
  /\ pc = "idle"
  /\ run_log # << >>
  /\ LastRun.finished
  /\ Len(LastRun.jobs) = 2
  /\ pool_size = 2
  /\ LastRun.ends = << "done", "failed" >>
  /\ tracker_queue = << >>
  /\ RowOfJob(LastRun.jobs[1], JobFile(LastRun.jobs[1])) \in Range(LedgerRows(tracker))

\* C24 (the collection loop terminates): once every job of a run has ended
\* and main has put the sentinel, update_tracker is never left waiting on
\* an empty queue, whatever number of the jobs failed, and the run goes on
\* to its end.
C24_CollectTerminates ==
  /\ []((pc = "pool" /\ AllEnded) =>
          ~Collect(PutDone(tracker_queue), Len(to_process), << >>).blocked)
  /\ (pc = "pool" /\ AllEnded) ~> (pc = "idle")

\* C24 happens: both jobs of a run failed and pushed nothing, the loop
\* ended on the sentinel alone, and the run is over
C24_Witness ==
  /\ pc = "idle"
  /\ run_log # << >>
  /\ LastRun.finished
  /\ LastRun.ends = << "failed", "failed" >>
  /\ tracker_queue = << >>
  /\ LedgerRows(LastRun.after) = LedgerRows(LastRun.before)

\* C25 (ledger rows are never lost): every (hostname, sourcePath) key in the
\* ledger before a run that went through the merge is still in the ledger
\* after it, also when jobs failed and when update_tracker raised or was
\* killed while it wrote.
C25_LedgerRowsKept ==
  \A n \in MergedRuns :
    LET e == run_log[n] IN
    ~CorruptLedger(e.before) => LedgerKeys(e.before) \subseteq LedgerKeys(e.after)

====
